---- MODULE Spec2Model ----
(***************************************************************************)
(* Model of pumpia/file_handling/dicom_structures.py: the Series and       *)
(* Instance nodes of the DICOM hierarchy, their load/unload state, the     *)
(* "temporarily load, read, restore" accessors and Series.add_instance.    *)
(*                                                                         *)
(* A behaviour follows one Series, built either as a stack (one            *)
(* multi-frame file, file 0) or as a non-stack Series, and the Instances   *)
(* constructed with it.  Instances 1..NumFrames are the frame Instances of *)
(* the stack; the NumFiles Instances after them are standalone Instances,  *)
(* each with its own file: the first is constructed with the stack Series, *)
(* the others with the non-stack Series.                                   *)
(*                                                                         *)
(* Spec covers the Series and its Instances: add_instance, load, unload,   *)
(* the tag and dataset accessors, the display accessors (vmax, vmin,       *)
(* window, level) and the pixel arrays.  SpecEq covers the comparisons of  *)
(* Patient and Study nodes, SpecTree the adds of children to a Patient, a  *)
(* Study and a Series, SpecNew the constructors of Series and Instance.    *)
(*                                                                         *)
(* SpecMiner models scripts/make_tags/dicom_miner.py: the parent links of  *)
(* the tags and the propagation of their modalities to their parents.      *)
(***************************************************************************)
EXTENDS Integers, Sequences, FiniteSets, TLC

\* ------------------------------------------------------------- bounds ----
NumFrames == 2
NumFiles == 4

\* ----------------------------------------------------- the object universe
Frames == 1..NumFrames
Standalone == (NumFrames + 1)..(NumFrames + NumFiles)
Inst == Frames \cup Standalone
NoInst == 0
NoFile == -1
Tags == {"SamplesPerPixel", "WindowCenter"}

\* a second Instance object constructed with the values of Instance i: the
\* same Series and the same frame / instance number, read from a file of its
\* own if i is not a frame
Twin(i) == i + 100
TwinOf(i) == i % 100

\* Instance.is_frame
is_frame(i) == TwinOf(i) \in Frames

\* Instance.frame_number (frames are numbered from 1)
frame_number(i) == TwinOf(i)

\* Instance.instance_number
instance_number(i) == TwinOf(i)

\* Series.__init__(filepath=...): the file of the stack Series
series_filepath == 0

\* the file an Instance reads: a frame uses the Series' file (file 0)
filepath(i) == IF is_frame(i) THEN 0 ELSE i

Files == {0} \cup Standalone

\* contents of the files: rows, columns and SamplesPerPixel of the pixel data
FileHeight(f) == IF f = NumFrames + 1 THEN 2 ELSE 1
FileWidth(f) == IF f = NumFrames + 5 THEN 2 ELSE 1
FileSamples(f) == IF f = NumFrames + 4 THEN 3 ELSE 1

\* Instance.shape[1], Instance.shape[2], is_multisample, is_rgb as fixed by
\* Instance.__init__
inst_height(i) == FileHeight(filepath(i))
inst_width(i) == FileWidth(filepath(i))
inst_is_multisample(i) == FileSamples(filepath(i)) # 1
inst_is_rgb(i) == FileSamples(filepath(i)) # 1

\* Instance.sort_value
sort_value(i) == IF is_frame(i) THEN frame_number(i) ELSE instance_number(i)

\* the tag resolver: which tags a file holds, and their values.  Slope and
\* intercept are 2 and -100; a (center, width) pair is (10f, 100f) for file f,
\* moved by the frame for a per-frame lookup; widths are even, so width / 2 is
\* an integer.  PhotometricInterpretation is held as a code: 0 "RGB",
\* 1 "YBR_FULL".
HasTag(f, tag) ==
    \/ tag \in {"SamplesPerPixel", "PhotometricInterpretation"}
    \/ (tag \in {"WindowCenter", "WindowWidth", "RescaleIntercept"} /\ f % 2 = 0)
    \/ (tag = "RescaleSlope" /\ f # NumFrames + 3)
TagValue(f, tag, frame) ==
    CASE tag = "SamplesPerPixel" -> FileSamples(f)
      [] tag = "WindowCenter" -> 10 * f + frame
      [] tag = "WindowWidth" -> 100 * f + 2 * frame
      [] tag = "RescaleSlope" -> 2
      [] tag = "RescaleIntercept" -> -100
      [] OTHER -> 1

\* a tag whose element holds several values (a pydicom MultiValue)
IsMulti(f, tag) == tag = "WindowCenter" /\ FileSamples(f) # 1

\* the pixel data of the files: FileDataset.pixel_array of the stack file is
\* a sequence of NumFrames slices, that of a standalone file is one slice; a
\* slice is the sequence of its height * width pixel values
pixel_slice(f, k) ==
    [p \in 1..(FileHeight(f) * FileWidth(f)) |-> 150 + 100 * f + 10 * k + p]
pixel_array(f) ==
    IF f = series_filepath
    THEN [k \in 1..NumFrames |-> pixel_slice(f, k)]
    ELSE pixel_slice(f, 0)

\* ImageCollection.current_slice (the slice shown; never moved here)
current_slice == 0

VARIABLES is_stack, image_set, shape, is_multisample, is_rgb,
          loaded, dicom, instance_loaded, instance_dicom, last, ret,
          patient_studies, study_series, call, made,
          tag_parents, tag_modalities, miner

vars == <<is_stack, image_set, shape, is_multisample, is_rgb,
          loaded, dicom, instance_loaded, instance_dicom, last, ret,
          patient_studies, study_series, call, made,
          tag_parents, tag_modalities, miner>>

\* the tag miner (scripts/make_tags/dicom_miner.py): Tag.parents and
\* Tag.modalities of every tag, and the progress of the propagation loop
minervars == <<tag_parents, tag_modalities, miner>>

\* Patient._studies of the Patient and Study._series of the Study that are
\* added to, the last comparison or add made on the hierarchy nodes, and the
\* last construction of a Series or an Instance
treevars == <<patient_studies, study_series, call, made>>

\* the Instances constructed with the Series (Instance.series)
SeriesInst ==
    IF is_stack THEN Frames \cup {NumFrames + 1} ELSE Standalone \ {NumFrames + 1}

\* ImageCollection.num_slices
num_slices == shape[1]

\* ------------------------------------------------ hierarchy identities ----
\* Patient objects: Patients 1 and 2 are built with the patient id 1 and
\* different names, Patients 3 and 4 with the patient id 2, 5 and 6 with 3
Patients == 1..6
Patient_patient_id(p) == ToString((p + 1) \div 2)
Patient_name(p) == IF p % 2 = 1 THEN "Ann" ELSE "Bob"

\* Patient.id_string
Patient_id_string(p) == "DICOM : " \o Patient_patient_id(p)

\* Patient.__hash__: hash(self.id_string), equal exactly for equal strings
Patient_hash(p) == Patient_id_string(p)

\* Patient.__eq__ comparing the names as well
Patient_eq_WithName(p, q) ==
    /\ Patient_patient_id(p) = Patient_patient_id(q)
    /\ Patient_name(p) = Patient_name(q)

\* Patient.__eq__, isinstance(value, Patient)
Patient_eq(p, q) == Patient_patient_id(p) = Patient_patient_id(q)

\* Patient.__eq__, isinstance(value, str)
Patient_eq_str(p, str) == Patient_id_string(p) = str

\* Study objects, as (patient, study_id): Studies 1 and 2 have one identity
\* through two Patient objects of one patient id, Study 3 is another study
\* of that Patient, Studies 4 to 6 are studies of other patient ids
Studies == 1..6
Study_patient(o) == <<1, 2, 1, 3, 4, 5>>[o]
Study_study_id(o) == <<"s1", "s1", "s2", "s1", "s2", "s1">>[o]

\* Study.id_string
Study_id_string(o) ==
    Patient_id_string(Study_patient(o)) \o " : " \o Study_study_id(o)

\* Study.__hash__
Study_hash(o) == Study_id_string(o)

\* Study.__eq__, isinstance(value, Study)
Study_eq(a, b) == Study_study_id(a) = Study_study_id(b)

\* Series objects, as (study, series_id, acquisition_number): Series 1 and 2
\* have one identity through two Study objects, Series 3 differs in the
\* acquisition number, Series 4 in the series id
SeriesObjs == 1..4
Series_study(o) == <<1, 2, 1, 3>>[o]
Series_series_id(o) == <<"x", "x", "x", "y">>[o]
Series_acquisition_number(o) == <<1, 1, 2, 1>>[o]

\* Series.id_string
Series_id_string(o) ==
    Study_id_string(Series_study(o)) \o " : " \o Series_series_id(o)
        \o "-" \o ToString(Series_acquisition_number(o))

\* Series.__hash__ (ImageCollection.__hash__): the hash of the identity
Series_hash(o) == Series_id_string(o)

\* Series.__eq__, isinstance(value, Series)
Series_eq(a, b) == Series_hash(a) = Series_hash(b)

\* Instance.__str__
Instance_str(i) ==
    IF is_frame(i) THEN ToString(frame_number(i)) ELSE ToString(instance_number(i))

\* Instance.id_string, the Series of the Instances being Series object 1
Instance_id_string(i) == Series_id_string(1) \o " : " \o Instance_str(i)

\* Instance.__hash__ (FileImageSet.__hash__): the hash of the identity
Instance_hash(i) == Instance_id_string(i)

\* Instance.__eq__, isinstance(value, Instance)
Instance_eq(a, b) == Instance_hash(a) = Instance_hash(b)

\* set.add of Python: nothing is inserted if the set holds an element of the
\* same hash that is the same object or compares equal

\* self._studies.add(study) keyed on the object reference
Patient_add_study_ByReference(S, o) == S \cup {o}

\* Patient.add_study: self._studies.add(study)
Patient_add_study(S, o) ==
    IF \E c \in S : Study_hash(c) = Study_hash(o) /\ (c = o \/ Study_eq(c, o))
    THEN S ELSE S \cup {o}

\* Study.add_series: self._series.add(series)
Study_add_series(S, o) ==
    IF \E c \in S : Series_hash(c) = Series_hash(o) /\ (c = o \/ Series_eq(c, o))
    THEN S ELSE S \cup {o}

\* Series.add_instance: self._image_set.add(instance)
image_set_add(S, i) ==
    IF \E c \in S : Instance_hash(c) = Instance_hash(i) /\ (c = i \/ Instance_eq(c, i))
    THEN S ELSE S \cup {i}

\* ------------------------------------------------------------ sorting ----
\* sorted(...) in descending order
RECURSIVE SortedSeq_Descending(_)
SortedSeq_Descending(S) ==
    IF S = {} THEN <<>>
    ELSE LET m == CHOOSE x \in S : \A y \in S : sort_value(x) >= sort_value(y)
         IN <<m>> \o SortedSeq_Descending(S \ {m})

\* sorted(self._image_set, key=lambda x: x.sort_value)
RECURSIVE SortedSeq(_)
SortedSeq(S) ==
    IF S = {} THEN <<>>
    ELSE LET m == CHOOSE x \in S : \A y \in S : sort_value(x) <= sort_value(y)
         IN <<m>> \o SortedSeq(S \ {m})

\* Series.instances
instances == SortedSeq(image_set)

\* ------------------------------------------------- the load-state heap ----
\* sl/sd: Series.loaded / Series._dicom is not None
\* il/idc: Instance.loaded / Instance._dicom is not None
\* dec: number of dcmread calls made so far in the running operation
Heap == [sl |-> loaded, sd |-> dicom,
         il |-> instance_loaded, idc |-> instance_dicom, dec |-> 0]

Ok(h) == [h |-> h, exc |-> "none", val |-> <<>>]
OkVal(h, v) == [h |-> h, exc |-> "none", val |-> v]
Raise(h, e) == [h |-> h, exc |-> e, val |-> <<>>]

\* A call result r carries the heap it left, the exception it raised ("none"
\* if it returned) and the value it returned.  No method here catches an
\* exception, so each step after a call first passes on a raised exception.
\*
\* A frame Instance exists only for a stack Series, so the calls a frame
\* forwards to its Series (self.series.load(), .unload(), .dicom_dataset) run
\* the is_stack branch of the Series method: the *_stack operators below.

\* Series.load with is_stack, without marking the frame Instances loaded
Series_load_stack_NoMark(h, bad) ==
    IF h.sl THEN Ok(h)
    ELSE IF bad = series_filepath
         THEN Raise([h EXCEPT !.dec = @ + 1], "InvalidDicomError")
         ELSE Ok([h EXCEPT !.sd = TRUE, !.sl = TRUE, !.dec = @ + 1])

\* Series.load, is_stack branch (bad: the file dcmread cannot decode during
\* this call)
Series_load_stack(h, bad) ==
    IF h.sl THEN Ok(h)
    ELSE IF bad = series_filepath
         THEN Raise([h EXCEPT !.dec = @ + 1], "InvalidDicomError")
         ELSE Ok([h EXCEPT !.sd = TRUE,
                           !.il = [i \in Inst |->
                                     IF i \in image_set THEN TRUE ELSE @[i]],
                           !.sl = TRUE,
                           !.dec = @ + 1])

\* a frame's load that also keeps a decoded payload in the frame
Instance_mark_loaded_Decodes(i, r) ==
    IF r.exc # "none" THEN r
    ELSE Ok([r.h EXCEPT !.il[i] = TRUE, !.idc[i] = TRUE])

\* Instance.load: `self.loaded = True` once self.series.load() returned r
Instance_mark_loaded(i, r) ==
    IF r.exc # "none" THEN r ELSE Ok([r.h EXCEPT !.il[i] = TRUE])

\* Instance.load without the `if not self.loaded` guard
Instance_load_NoGuard(h, i, bad) ==
    IF is_frame(i)
    THEN Instance_mark_loaded(i, Series_load_stack(h, bad))
    ELSE IF bad = filepath(i)
         THEN Raise([h EXCEPT !.dec = @ + 1], "InvalidDicomError")
         ELSE Ok([h EXCEPT !.idc[i] = TRUE, !.il[i] = TRUE, !.dec = @ + 1])

\* Instance.load that sets `loaded` before it decodes the file
Instance_load_MarksFirst(h, i, bad) ==
    IF h.il[i] THEN Ok(h)
    ELSE IF is_frame(i)
         THEN Instance_mark_loaded(i, Series_load_stack(h, bad))
         ELSE IF bad = filepath(i)
              THEN Raise([h EXCEPT !.il[i] = TRUE, !.dec = @ + 1],
                         "InvalidDicomError")
              ELSE Ok([h EXCEPT !.idc[i] = TRUE, !.il[i] = TRUE, !.dec = @ + 1])

\* Instance.load
Instance_load(h, i, bad) ==
    IF h.il[i] THEN Ok(h)
    ELSE IF is_frame(i)
         THEN Instance_mark_loaded(i, Series_load_stack(h, bad))
         ELSE IF bad = filepath(i)
              THEN Raise([h EXCEPT !.dec = @ + 1], "InvalidDicomError")
              ELSE Ok([h EXCEPT !.idc[i] = TRUE, !.il[i] = TRUE, !.dec = @ + 1])

\* Series.load: the loop `for instance in self.instances: instance.load()`
\* over the instances seq still to load, r being the result so far
RECURSIVE LoadEach(_, _, _)
LoadEach(r, seq, bad) ==
    IF r.exc # "none" \/ seq = <<>> THEN r
    ELSE LoadEach(Instance_load(r.h, Head(seq), bad), Tail(seq), bad)

\* Series.load: `self.loaded = True` once the loop returned r
Series_mark_loaded(r) ==
    IF r.exc # "none" THEN r ELSE Ok([r.h EXCEPT !.sl = TRUE])

\* Series.load
Series_load(h, bad) ==
    IF is_stack THEN Series_load_stack(h, bad)
    ELSE IF h.sl THEN Ok(h)
    ELSE Series_mark_loaded(LoadEach(Ok(h), instances, bad))

\* Series.unload, is_stack branch
Series_unload_stack(h) ==
    IF ~h.sl THEN h
    ELSE [h EXCEPT !.sd = FALSE,
                   !.il = [i \in Inst |->
                             IF i \in image_set THEN FALSE ELSE @[i]],
                   !.sl = FALSE]

\* Instance.unload of a frame that does not forward to the Series
Instance_unload_NoForward(h, i) ==
    IF ~h.il[i] THEN h
    ELSE IF is_frame(i)
         THEN [h EXCEPT !.il[i] = FALSE]
         ELSE [h EXCEPT !.idc[i] = FALSE, !.il[i] = FALSE]

\* Instance.unload
Instance_unload(h, i) ==
    IF ~h.il[i] THEN h
    ELSE IF is_frame(i)
         THEN [Series_unload_stack(h) EXCEPT !.il[i] = FALSE]
         ELSE [h EXCEPT !.idc[i] = FALSE, !.il[i] = FALSE]

\* Series.unload: the loop `for instance in self.instances: instance.unload()`
RECURSIVE UnloadEach(_, _)
UnloadEach(h, seq) ==
    IF seq = <<>> THEN h
    ELSE UnloadEach(Instance_unload(h, Head(seq)), Tail(seq))

\* Series.unload
Series_unload(h) ==
    IF is_stack THEN Series_unload_stack(h)
    ELSE IF ~h.sl THEN h
    ELSE [UnloadEach(h, instances) EXCEPT !.sl = FALSE]

\* --------------------------------------------- read-only accessors --------
\* A dataset value is <<>> for None, else <<f>> for the decoded file f.
\* load_stat is the receiver's `loaded` on entry.

\* Series.dicom_dataset with is_stack: `dcm = self._dicom`, then
\* `if not load_stat: self.unload()`, `return dcm`, once the load returned r
Series_stack_read_restore(load_stat, r) ==
    IF r.exc # "none" THEN r
    ELSE OkVal(IF ~load_stat THEN Series_unload_stack(r.h) ELSE r.h,
               IF r.h.sd THEN <<series_filepath>> ELSE <<>>)

\* Series.dicom_dataset, is_stack branch
Series_dicom_dataset_stack(h, bad) ==
    Series_stack_read_restore(
        h.sl, IF ~h.sl THEN Series_load_stack(h, bad) ELSE Ok(h))

\* `if not load_stat: self.unload()`, `return ...` of the Instance accessors,
\* once the read returned r
Instance_restore(load_stat, i, r) ==
    IF r.exc # "none" THEN r
    ELSE OkVal(IF ~load_stat THEN Instance_unload(r.h, i) ELSE r.h, r.val)

\* `if not load_stat: self.unload()`, `return ...` of the Series accessors,
\* once the read returned r
Series_restore(load_stat, r) ==
    IF r.exc # "none" THEN r
    ELSE OkVal(IF ~load_stat THEN Series_unload(r.h) ELSE r.h, r.val)

\* Instance.dicom_dataset: the read of the dataset, once the load returned r
Instance_dataset_read(i, bad, r) ==
    IF r.exc # "none" THEN r
    ELSE IF is_frame(i) THEN Series_dicom_dataset_stack(r.h, bad)
    ELSE OkVal(r.h, IF r.h.idc[i] THEN <<filepath(i)>> ELSE <<>>)

\* Instance.dicom_dataset
Instance_dicom_dataset(h, i, bad) ==
    Instance_restore(
        h.il[i], i,
        Instance_dataset_read(
            i, bad, IF ~h.il[i] THEN Instance_load(h, i, bad) ELSE Ok(h)))

\* Series.dicom_dataset of a non-stack Series:
\* `self.instances[self.current_slice].dicom_dataset`, once the load returned r
Series_dataset_read(bad, r) ==
    IF r.exc # "none" THEN r
    ELSE IF current_slice + 1 > Len(instances) THEN Raise(r.h, "IndexError")
    ELSE Instance_dicom_dataset(r.h, instances[current_slice + 1], bad)

\* Series.dicom_dataset
Series_dicom_dataset(h, bad) ==
    IF is_stack THEN Series_dicom_dataset_stack(h, bad)
    ELSE Series_restore(
             h.sl,
             Series_dataset_read(
                 bad, IF ~h.sl THEN Series_load(h, bad) ELSE Ok(h)))

\* dicom_tags.get_tag(dataset, tag[, frame]).value: KeyError if tag absent.
\* A value is <<>> for None, <<v>> for a number, <<v, w>> for a MultiValue.
get_tag(h, dataset, tag, frame) ==
    IF dataset = <<>> THEN OkVal(h, <<>>)
    ELSE IF ~HasTag(dataset[1], tag) THEN Raise(h, "KeyError")
    ELSE IF IsMulti(dataset[1], tag)
         THEN OkVal(h, <<TagValue(dataset[1], tag, frame),
                         TagValue(dataset[1], tag, frame) + 1>>)
    ELSE OkVal(h, <<TagValue(dataset[1], tag, frame)>>)

\* Instance.get_tag: the dataset the tag is read from, once the load returned r
Instance_tag_dataset(i, bad, r) ==
    IF r.exc # "none" THEN r
    ELSE IF is_frame(i) THEN Series_dicom_dataset_stack(r.h, bad)
    ELSE Instance_dicom_dataset(r.h, i, bad)

\* Instance.get_tag: the lookup in the dataset that r returned
Instance_tag_read(i, tag, r) ==
    IF r.exc # "none" THEN r
    ELSE get_tag(r.h, r.val, tag, IF is_frame(i) THEN frame_number(i) ELSE 0)

\* Instance.get_tag
Instance_get_tag(h, i, tag, bad) ==
    Instance_restore(
        h.il[i], i,
        Instance_tag_read(
            i, tag,
            Instance_tag_dataset(
                i, bad, IF ~h.il[i] THEN Instance_load(h, i, bad) ELSE Ok(h))))

\* Series.get_tags: `values.append(...)` of the value that r returned
AppendValue(values, r) ==
    IF r.exc # "none" THEN r ELSE OkVal(r.h, Append(values, r.val))

\* Series.get_tags: the loop `values.append(instance.get_tag(tag))` over the
\* instances seq still to read, r being the result (and values) so far
RECURSIVE GetEach(_, _, _, _)
GetEach(r, seq, tag, bad) ==
    IF r.exc # "none" \/ seq = <<>> THEN r
    ELSE GetEach(AppendValue(r.val, Instance_get_tag(r.h, Head(seq), tag, bad)),
                 Tail(seq), tag, bad)

\* Series.get_tags: the loop, once the load returned r
Series_tags_read(tag, bad, r) ==
    IF r.exc # "none" THEN r ELSE GetEach(OkVal(r.h, <<>>), instances, tag, bad)

\* Series.get_tags
Series_get_tags(h, tag, bad) ==
    Series_restore(
        h.sl,
        Series_tags_read(
            tag, bad, IF ~h.sl THEN Series_load(h, bad) ELSE Ok(h)))

\* list[n] of Python for a list of length len: the 1-based position read, or
\* 0 for an IndexError (a negative n counts from the end)
PyIndex(len, n) ==
    IF n >= 0 /\ n < len THEN n + 1
    ELSE IF n < 0 /\ n + len >= 0 THEN n + len + 1
    ELSE 0

\* Series.get_tag
Series_get_tag(h, tag, n, bad) ==
    IF n < num_slices
    THEN IF PyIndex(Len(instances), n) = 0 THEN Raise(h, "IndexError")
         ELSE Instance_get_tag(h, instances[PyIndex(Len(instances), n)], tag, bad)
    ELSE Raise(h, "IndexError")

\* ------------------------------------------------- display accessors ------
\* What vmax, vmin, window and level return: the base class's default
\* (super().vmax and so on), or a value v read from the tags.
BaseDefault == [default |-> TRUE, v |-> <<>>]
Returned(v) == [default |-> FALSE, v |-> v]

\* `except <catches>: return super().<accessor>`
Or_default(catches, r) ==
    IF r.exc \in catches THEN OkVal(r.h, BaseDefault) ELSE r

\* self.get_tag(tag, self.current_slice) of the Series (x = NoInst),
\* self.get_tag(tag) of Instance x
Display_get_tag(h, x, tag, bad) ==
    IF x = NoInst THEN Series_get_tag(h, tag, current_slice, bad)
    ELSE Instance_get_tag(h, x, tag, bad)

\* a limit that adds the whole window width
Limit_NoHalf(sign, width, r) ==
    IF r.exc # "none" THEN r
    ELSE IF width = <<>> \/ r.val = <<>> THEN Raise(r.h, "TypeError")
    ELSE IF Len(width) # 1 \/ Len(r.val) # 1 THEN Raise(r.h, "TypeError")
    ELSE OkVal(r.h, Returned(<<r.val[1] + sign * width[1]>>))

\* vmax (sign 1) / vmin (sign -1): `window_center +- (window_width / 2)`, r
\* being the WindowCenter lookup; TypeError if either value is None, and from
\* the arithmetic on a MultiValue
Limit(sign, width, r) ==
    IF r.exc # "none" THEN r
    ELSE IF width = <<>> \/ r.val = <<>> THEN Raise(r.h, "TypeError")
    ELSE IF Len(width) # 1 \/ Len(r.val) # 1 THEN Raise(r.h, "TypeError")
    ELSE OkVal(r.h, Returned(<<r.val[1] + sign * (width[1] \div 2)>>))

\* `window_center = self.get_tag(WindowCenter...)`, r being the WindowWidth
\* lookup
Read_center(x, sign, bad, r) ==
    IF r.exc # "none" THEN r
    ELSE Limit(sign, r.val, Display_get_tag(r.h, x, "WindowCenter", bad))

\* Series.vmax / Series.vmin (x = NoInst), Instance.vmax / Instance.vmin
vlimit(h, x, sign, bad) ==
    Or_default({"TypeError", "KeyError"},
               Read_center(x, sign, bad,
                           Display_get_tag(h, x, "WindowWidth", bad)))

\* Series.window / Series.level: `float(value)` of the value r returned, the
\* base default for None, TypeError for a MultiValue
To_float(r) ==
    IF r.exc # "none" THEN r
    ELSE IF r.val = <<>> THEN OkVal(r.h, BaseDefault)
    ELSE IF Len(r.val) # 1 THEN Raise(r.h, "TypeError")
    ELSE OkVal(r.h, Returned(r.val))

\* Instance.window / Instance.level: `return self.get_tag(...)`
As_read(r) ==
    IF r.exc # "none" THEN r ELSE OkVal(r.h, Returned(r.val))

\* Series.vmax, Series.vmin, Series.window, Series.level
Series_display(h, op, bad) ==
    CASE op = "Series.vmax" -> vlimit(h, NoInst, 1, bad)
      [] op = "Series.vmin" -> vlimit(h, NoInst, -1, bad)
      [] op = "Series.window" ->
            Or_default({"KeyError", "IndexError", "TypeError"},
                       To_float(Display_get_tag(h, NoInst, "WindowWidth", bad)))
      [] op = "Series.level" ->
            Or_default({"KeyError", "IndexError"},
                       To_float(Display_get_tag(h, NoInst, "WindowCenter", bad)))

\* Instance.vmax, Instance.vmin, Instance.window, Instance.level
Instance_display(h, i, op, bad) ==
    CASE op = "Instance.vmax" -> vlimit(h, i, 1, bad)
      [] op = "Instance.vmin" -> vlimit(h, i, -1, bad)
      [] op = "Instance.window" ->
            Or_default({"KeyError", "IndexError"},
                       As_read(Display_get_tag(h, i, "WindowWidth", bad)))
      [] op = "Instance.level" ->
            Or_default({"KeyError", "IndexError"},
                       As_read(Display_get_tag(h, i, "WindowCenter", bad)))

\* ------------------------------------------------------- pixel arrays ------
\* An array is a sequence of slices.

\* Series.raw_array with is_stack, once the load returned r: the cached
\* payload's pixel_array; without a payload the else branch concatenates the
\* frames' raw_array, each of which asks the Series again
Series_raw_array_stack_read(r) ==
    IF r.exc # "none" THEN r
    ELSE IF r.h.sd THEN OkVal(r.h, pixel_array(series_filepath))
    ELSE IF instances = <<>> THEN Raise(r.h, "ValueError")
    ELSE Raise(r.h, "RecursionError")

\* Series.raw_array, is_stack branch
Series_raw_array_stack(h, bad) ==
    Series_raw_array_stack_read(
        IF ~h.sl THEN Series_load_stack(h, bad) ELSE Ok(h))

\* the frame's slice taken at index frame_number instead of frame_number - 1
Instance_frame_slice_OffByOne(i, r) ==
    IF r.exc # "none" THEN r
    ELSE IF PyIndex(Len(r.val), frame_number(i)) = 0
         THEN Raise(r.h, "IndexError")
    ELSE OkVal(r.h, <<r.val[PyIndex(Len(r.val), frame_number(i))]>>)

\* Instance.raw_array / Instance.array of a frame:
\* `np.array([<Series array>[self.frame_number - 1]])`, r being the Series array
Instance_frame_slice(i, r) ==
    IF r.exc # "none" THEN r
    ELSE IF PyIndex(Len(r.val), frame_number(i) - 1) = 0
         THEN Raise(r.h, "IndexError")
    ELSE OkVal(r.h, <<r.val[PyIndex(Len(r.val), frame_number(i) - 1)]>>)

\* Instance.raw_array, once the load returned r
Instance_raw_array_read(i, bad, r) ==
    IF r.exc # "none" THEN r
    ELSE IF is_frame(i)
         THEN Instance_frame_slice(i, Series_raw_array_stack(r.h, bad))
    ELSE IF r.h.idc[i] THEN OkVal(r.h, <<pixel_array(filepath(i))>>)
    ELSE OkVal(r.h, <<<<0>>>>)

\* Instance.raw_array
Instance_raw_array(h, i, bad) ==
    Instance_raw_array_read(
        i, bad, IF ~h.il[i] THEN Instance_load(h, i, bad) ELSE Ok(h))

\* a list of arrays built in reverse
Extend_Prepend(slices, r) ==
    IF r.exc # "none" THEN r ELSE OkVal(r.h, r.val \o slices)

\* one more array of the list handed to np.concatenate
Extend(slices, r) ==
    IF r.exc # "none" THEN r ELSE OkVal(r.h, slices \o r.val)

\* np.concatenate: ValueError for an empty list of arrays
concatenate(r) ==
    IF r.exc # "none" THEN r
    ELSE IF r.val = <<>> THEN Raise(r.h, "ValueError")
    ELSE r

\* Series.raw_array: `[a.raw_array for a in self.instances]` over the
\* instances seq still to read, r being the result (and arrays) so far
RECURSIVE RawEach(_, _, _)
RawEach(r, seq, bad) ==
    IF r.exc # "none" \/ seq = <<>> THEN r
    ELSE RawEach(Extend(r.val, Instance_raw_array(r.h, Head(seq), bad)),
                 Tail(seq), bad)

\* Series.raw_array, once the load returned r
Series_raw_array_read(bad, r) ==
    IF r.exc # "none" THEN r
    ELSE IF is_stack THEN Series_raw_array_stack_read(r)
    ELSE concatenate(RawEach(OkVal(r.h, <<>>), instances, bad))

\* Series.raw_array
Series_raw_array(h, bad) ==
    Series_raw_array_read(bad, IF ~h.sl THEN Series_load(h, bad) ELSE Ok(h))

\* raw_array * slope + intercept, value by value
Rescale(raw, slope, intercept) ==
    [k \in DOMAIN raw |->
        [p \in DOMAIN raw[k] |-> raw[k][p] * slope + intercept]]

\* pydicom convert_color_space(arr, "YBR_FULL", "RGB"): every value changes
YbrToRgb(raw) ==
    [k \in DOMAIN raw |-> [p \in DOMAIN raw[k] |-> raw[k][p] + 1000]]

\* The array of a stack Series (x = NoInst) and of a standalone Instance x run
\* the same statements, with self.get_tag(tag, 0) and self.get_tag(tag).
Elem_get_tag(h, x, tag, bad) ==
    IF x = NoInst THEN Series_get_tag(h, tag, 0, bad)
    ELSE Instance_get_tag(h, x, tag, bad)

\* self.raw_array of the stack Series / of the standalone Instance x
Elem_raw_array(h, x, bad) ==
    IF x = NoInst THEN Series_raw_array(h, bad) ELSE Instance_raw_array(h, x, bad)

\* `return raw_array * slope + intercept`, r being the intercept lookup
Apply_rescale(raw, slope, r) ==
    IF r.exc # "none" THEN r
    ELSE IF Len(slope) # 1 \/ Len(r.val) # 1 THEN Raise(r.h, "TypeError")
    ELSE OkVal(r.h, Rescale(raw, slope[1], r.val[1]))

\* `intercept = self.get_tag(RescaleIntercept)`, r being the slope lookup
Read_intercept(x, raw, bad, r) ==
    IF r.exc # "none" THEN r
    ELSE Apply_rescale(raw, r.val,
                       Elem_get_tag(r.h, x, "RescaleIntercept", bad))

\* `except <catches>: return raw_array`
Or_raw(raw, catches, r) ==
    IF r.exc \in catches THEN OkVal(r.h, raw) ELSE r

\* convert_color_space(self.raw_array, photo_interp, 'RGB'), r being the
\* second read of self.raw_array
Convert_color(photo_interp, r) ==
    IF r.exc # "none" THEN r
    ELSE IF photo_interp = <<0>> THEN r
    ELSE IF photo_interp = <<1>> THEN OkVal(r.h, YbrToRgb(r.val))
    ELSE Raise(r.h, "NotImplementedError")

\* the multisample branch, r being the PhotometricInterpretation lookup
Multi_sample(x, raw, bad, r) ==
    IF r.exc # "none" THEN r
    ELSE IF r.val = <<>> THEN OkVal(r.h, raw)
    ELSE Convert_color(r.val, Elem_raw_array(r.h, x, bad))

\* `if self.get_tag(SamplesPerPixel) == 1: ... else: ...`, r being that lookup
Corrected(x, raw, bad, r) ==
    IF r.exc # "none" THEN r
    ELSE IF r.val = <<1>>
         THEN Or_raw(raw, {"KeyError"},
                     Read_intercept(x, raw, bad,
                                    Elem_get_tag(r.h, x, "RescaleSlope", bad)))
    ELSE Or_raw(raw, {"KeyError", "NotImplementedError"},
                Multi_sample(x, raw, bad,
                             Elem_get_tag(r.h, x, "PhotometricInterpretation",
                                          bad)))

\* the statements after `raw_array = np.astype(self.raw_array, float)`, r
\* being the read of self.raw_array
Elem_array_read(x, bad, r) ==
    IF r.exc # "none" THEN r
    ELSE Corrected(x, r.val, bad, Elem_get_tag(r.h, x, "SamplesPerPixel", bad))

\* Series.array with is_stack, once the load returned r
Series_array_stack_read(bad, r) ==
    IF r.exc # "none" THEN r
    ELSE Elem_array_read(NoInst, bad, Series_raw_array(r.h, bad))

\* Series.array, is_stack branch
Series_array_stack(h, bad) ==
    Series_array_stack_read(
        bad, IF ~h.sl THEN Series_load_stack(h, bad) ELSE Ok(h))

\* Instance.array, once the load returned r
Instance_array_read(i, bad, r) ==
    IF r.exc # "none" THEN r
    ELSE IF is_frame(i)
         THEN Instance_frame_slice(i, Series_array_stack(r.h, bad))
    ELSE Elem_array_read(i, bad, Instance_raw_array(r.h, i, bad))

\* Instance.array
Instance_array(h, i, bad) ==
    Instance_array_read(
        i, bad, IF ~h.il[i] THEN Instance_load(h, i, bad) ELSE Ok(h))

\* Series.array: `[a.array for a in self.instances]` over the instances seq
\* still to read, r being the result (and arrays) so far
RECURSIVE ArrayEach(_, _, _)
ArrayEach(r, seq, bad) ==
    IF r.exc # "none" \/ seq = <<>> THEN r
    ELSE ArrayEach(Extend(r.val, Instance_array(r.h, Head(seq), bad)),
                   Tail(seq), bad)

\* Series.array, once the load returned r
Series_array_read(bad, r) ==
    IF r.exc # "none" THEN r
    ELSE IF is_stack THEN Series_array_stack_read(bad, r)
    ELSE concatenate(ArrayEach(OkVal(r.h, <<>>), instances, bad))

\* Series.array
Series_array(h, bad) ==
    Series_array_read(bad, IF ~h.sl THEN Series_load(h, bad) ELSE Ok(h))

\* ------------------------------------------------------ add_instance ------
\* the acceptance condition without the height comparison
Compatible_NoHeight(i) ==
    \/ num_slices = 0
    \/ /\ shape[3] = inst_width(i)
       /\ is_multisample = inst_is_multisample(i)
       /\ is_rgb = inst_is_rgb(i)

\* the acceptance condition without the multisample/RGB comparison
Compatible_NoSamples(i) ==
    \/ num_slices = 0
    \/ /\ shape[2] = inst_height(i)
       /\ shape[3] = inst_width(i)

\* the acceptance condition without the `num_slices == 0` case
Compatible_NoEmpty(i) ==
    /\ shape[2] = inst_height(i)
    /\ shape[3] = inst_width(i)
    /\ is_multisample = inst_is_multisample(i)
    /\ is_rgb = inst_is_rgb(i)

\* Series.add_instance: the acceptance condition
Compatible(i) ==
    \/ num_slices = 0
    \/ /\ shape[2] = inst_height(i)
       /\ shape[3] = inst_width(i)
       /\ is_multisample = inst_is_multisample(i)
       /\ is_rgb = inst_is_rgb(i)

\* a slice count that is incremented instead of recounted
NewShape_Increment(children, i) == <<shape[1] + 1, inst_height(i), inst_width(i)>>

\* Series.add_instance: the shape assigned after the instance was inserted
NewShape(children, i) == <<Cardinality(children), inst_height(i), inst_width(i)>>

\* ------------------------------------------------------- the tag miner ----
\* dicom_miner.py: the tags dict holds NumTags tags, keyed 1..NumTags in the
\* order they were inserted.
NumTags == 3
TagKeys == 1..NumTags

\* Each tag starts with one modality of its own (add_modality), so that the
\* modalities a tag ends with tell which tags' modalities reached it.
Modality(t) == t

\* miner: the number of tags the propagation loop has gone through, and the
\* chain and the number of calls of its last set_parent_modalities
NoMiner == [pos |-> 0, chain |-> <<>>, calls |-> 0]

\* the keys of the dict parents, in its order
ParentKeys(parents) == {parents[k] : k \in 1..Len(parents)}

\* Tag.add_parents(p) of the tag with key t: a tag is not its own parent,
\* and a key already in the dict keeps its place
Tag_add_parents(parents, t, p) ==
    IF p = t \/ p \in ParentKeys(parents) THEN parents ELSE Append(parents, p)

\* `self not in chain`
InChain(chain, t) == \E k \in 1..Len(chain) : chain[k] = t

\* `for m in self.modalities: tags[p].modalities.add(m)`
Push_modalities(r, t, p) ==
    [r EXCEPT !.mods[p] = @ \cup r.mods[t]]

\* the loop over self.parents that adds the modalities and goes no further
RECURSIVE Each_parent_NoRecursion(_, _, _)
Each_parent_NoRecursion(r, t, k) ==
    IF k > Len(tag_parents[t]) THEN r
    ELSE Each_parent_NoRecursion(
             Push_modalities(r, t, tag_parents[t][k]), t, k + 1)

\* set_parent_modalities that does not call itself on the parents
Tag_set_parent_modalities_NoRecursion(r, t) ==
    IF InChain(r.chain, t) THEN [r EXCEPT !.calls = @ + 1]
    ELSE Each_parent_NoRecursion(
             [r EXCEPT !.chain = Append(@, t), !.calls = @ + 1], t, 1)

RECURSIVE Tag_set_parent_modalities(_, _)
RECURSIVE Each_parent(_, _, _)

\* Tag.set_parent_modalities: the loop `for p, _ in self.parents.items()`
\* from the k-th parent on, r being the modalities, chain and calls so far
Each_parent(r, t, k) ==
    IF k > Len(tag_parents[t]) THEN r
    ELSE Each_parent(
             Tag_set_parent_modalities(
                 Push_modalities(r, t, tag_parents[t][k]), tag_parents[t][k]),
             t, k + 1)

\* Tag.set_parent_modalities(tags, chain) of the tag with key t
Tag_set_parent_modalities(r, t) ==
    IF InChain(r.chain, t) THEN [r EXCEPT !.calls = @ + 1]
    ELSE Each_parent([r EXCEPT !.chain = Append(@, t), !.calls = @ + 1], t, 1)

\* ------------------------------------------------------------ state -------
\* ret: the arguments (the index of Series.get_tag, the tag) and the value
\* returned by the last call, for the calls whose value is looked at below
NoRet == [arg |-> 0, tag |-> "", val |-> <<>>]

\* call: the last call on a hierarchy node: a comparison of object a with
\* object b or with the string str and its result, or an add of object a
NoCall == [op |-> "none", a |-> 0, b |-> 0, str |-> "", result |-> FALSE]

\* made: the last construction: the constructor, whether it was asked for a
\* stack (Series) or a frame (Instance), the path it was given (NoFile: None),
\* the number of children its Series had (Instance) and how it ended
NoMade == [op |-> "none", variant |-> FALSE, path |-> NoFile, children |-> 0,
           exc |-> "none"]

\* Series.__init__ (and Instance.__init__: every Instance starts unloaded)
Init ==
    /\ is_stack \in BOOLEAN
    /\ image_set = {}
    /\ shape = IF is_stack
               THEN <<NumFrames, FileHeight(series_filepath),
                      FileWidth(series_filepath)>>
               ELSE <<0, 0, 0>>
    /\ is_multisample = (is_stack /\ FileSamples(series_filepath) # 1)
    /\ is_rgb = (is_stack /\ FileSamples(series_filepath) # 1)
    /\ loaded = FALSE
    /\ dicom = FALSE
    /\ instance_loaded = [i \in Inst |-> FALSE]
    /\ instance_dicom = [i \in Inst |-> FALSE]
    /\ last = [op |-> "init", inst |-> NoInst, exc |-> "none",
               pre_loaded |-> FALSE, pre_children |-> 0, dec |-> 0,
               chain |-> "none"]
    /\ ret = NoRet
    /\ patient_studies = {}
    /\ study_series = {}
    /\ call = NoCall
    /\ made = NoMade
    /\ tag_parents = [t \in TagKeys |-> <<>>]
    /\ tag_modalities = [t \in TagKeys |-> {Modality(t)}]
    /\ miner = NoMiner

\* the files a call on the Series / on Instance i may read, one of which
\* (or none) fails to decode during the call
SeriesFiles ==
    (IF is_stack THEN {series_filepath} ELSE {})
        \cup {filepath(i) : i \in image_set}
InstanceFiles(i) == {filepath(i)}

\* what the last call was: its receiver (NoInst: the Series), how it ended,
\* the receiver's `loaded` (load/unload/accessors) or the number of children
\* (add_instance) before it, and the decodes it made; for an unload() that
\* directly follows a normally returning load() of the same receiver, chain
\* tells the receiver's `loaded` before that load()
Called(op, i, exc, dec) ==
    last' = [op |-> op, inst |-> i, exc |-> exc,
             pre_loaded |-> IF op = "add_instance" THEN FALSE
                            ELSE IF i = NoInst THEN loaded
                            ELSE instance_loaded[i],
             pre_children |-> IF op = "add_instance"
                              THEN Cardinality(image_set) ELSE 0,
             dec |-> dec,
             chain |-> IF /\ op \in {"Series.unload", "Instance.unload"}
                          /\ last.op \in {"Series.load", "Instance.load"}
                          /\ (last.op = "Series.load") = (op = "Series.unload")
                          /\ last.inst = i
                          /\ last.exc = "none"
                       THEN IF last.pre_loaded THEN "was_loaded" ELSE "was_unloaded"
                       ELSE "none"]

SetHeap(h) ==
    /\ loaded' = h.sl
    /\ dicom' = h.sd
    /\ instance_loaded' = h.il
    /\ instance_dicom' = h.idc

\* Series.add_instance
add_instance(i) ==
    /\ IF Compatible(i)
       THEN /\ image_set' = image_set_add(image_set, i)
            /\ shape' = NewShape(image_set', i)
            /\ is_multisample' = inst_is_multisample(i)
            /\ is_rgb' = inst_is_rgb(i)
            /\ Called("add_instance", i, "none", 0)
       ELSE /\ UNCHANGED <<image_set, shape, is_multisample, is_rgb>>
            /\ Called("add_instance", i, "ValueError", 0)
    /\ UNCHANGED <<is_stack, loaded, dicom, instance_loaded, instance_dicom>>
    /\ ret' = NoRet
    /\ UNCHANGED treevars
    /\ UNCHANGED minervars

AddInstance == \E i \in SeriesInst : add_instance(i)

Finish(op, i, r) ==
    /\ SetHeap(r.h)
    /\ Called(op, i, r.exc, r.h.dec)
    /\ ret' = NoRet
    /\ UNCHANGED <<is_stack, image_set, shape, is_multisample, is_rgb>>
    /\ UNCHANGED treevars
    /\ UNCHANGED minervars

\* the end of a call whose argument n and returned value are recorded
FinishRet(op, i, n, tag, r) ==
    /\ SetHeap(r.h)
    /\ Called(op, i, r.exc, r.h.dec)
    /\ ret' = [arg |-> n, tag |-> tag, val |-> r.val]
    /\ UNCHANGED <<is_stack, image_set, shape, is_multisample, is_rgb>>
    /\ UNCHANGED treevars
    /\ UNCHANGED minervars

SeriesLoad ==
    \E bad \in SeriesFiles \cup {NoFile} :
        Finish("Series.load", NoInst, Series_load(Heap, bad))

SeriesUnload ==
    \E h \in {Series_unload(Heap)} :
        Finish("Series.unload", NoInst, Ok(h))

SeriesGetTags ==
    \E tag \in Tags : \E bad \in SeriesFiles \cup {NoFile} :
        Finish("Series.get_tags", NoInst, Series_get_tags(Heap, tag, bad))

SeriesDicomDataset ==
    \E bad \in SeriesFiles \cup {NoFile} :
        Finish("Series.dicom_dataset", NoInst, Series_dicom_dataset(Heap, bad))

InstanceLoad ==
    \E i \in SeriesInst : \E bad \in InstanceFiles(i) \cup {NoFile} :
        Finish("Instance.load", i, Instance_load(Heap, i, bad))

InstanceUnload ==
    \E i \in SeriesInst :
        Finish("Instance.unload", i, Ok(Instance_unload(Heap, i)))

InstanceGetTag ==
    \E i \in SeriesInst, tag \in Tags : \E bad \in InstanceFiles(i) \cup {NoFile} :
        Finish("Instance.get_tag", i, Instance_get_tag(Heap, i, tag, bad))

InstanceDicomDataset ==
    \E i \in SeriesInst : \E bad \in InstanceFiles(i) \cup {NoFile} :
        Finish("Instance.dicom_dataset", i, Instance_dicom_dataset(Heap, i, bad))

\* the indices passed to Series.get_tag
MaxIndex == 3

SeriesGetTag ==
    \E n \in -1..MaxIndex, tag \in Tags : \E bad \in SeriesFiles \cup {NoFile} :
        FinishRet("Series.get_tag", NoInst, n, tag,
                  Series_get_tag(Heap, tag, n, bad))

SeriesRawArray ==
    \E bad \in SeriesFiles \cup {NoFile} :
        FinishRet("Series.raw_array", NoInst, 0, "", Series_raw_array(Heap, bad))

SeriesArray ==
    \E bad \in SeriesFiles \cup {NoFile} :
        FinishRet("Series.array", NoInst, 0, "", Series_array(Heap, bad))

InstanceRawArray ==
    \E i \in SeriesInst : \E bad \in InstanceFiles(i) \cup {NoFile} :
        FinishRet("Instance.raw_array", i, 0, "",
                  Instance_raw_array(Heap, i, bad))

InstanceArray ==
    \E i \in SeriesInst : \E bad \in InstanceFiles(i) \cup {NoFile} :
        FinishRet("Instance.array", i, 0, "",
                  Instance_array(Heap, i, bad))

SeriesDisplayOps == {"Series.vmax", "Series.vmin", "Series.window", "Series.level"}
InstanceDisplayOps ==
    {"Instance.vmax", "Instance.vmin", "Instance.window", "Instance.level"}

SeriesDisplay ==
    \E op \in SeriesDisplayOps : \E bad \in SeriesFiles \cup {NoFile} :
        FinishRet(op, NoInst, 0, "", Series_display(Heap, op, bad))

InstanceDisplay ==
    \E i \in SeriesInst, op \in InstanceDisplayOps :
        \E bad \in InstanceFiles(i) \cup {NoFile} :
            FinishRet(op, i, 0, "", Instance_display(Heap, i, op, bad))

Next ==
    \/ AddInstance
    \/ SeriesDisplay
    \/ InstanceDisplay
    \/ SeriesRawArray
    \/ SeriesArray
    \/ InstanceRawArray
    \/ InstanceArray
    \/ SeriesGetTag
    \/ SeriesLoad
    \/ SeriesUnload
    \/ SeriesGetTags
    \/ SeriesDicomDataset
    \/ InstanceLoad
    \/ InstanceUnload
    \/ InstanceGetTag
    \/ InstanceDicomDataset

Spec == Init /\ [][Next]_vars

\* ------------------------------------------------- the hierarchy nodes ----
\* the strings a Patient is compared with
Strings == {"DICOM : 1", "DICOM : 2", "DICOM : ", "1", "2", "1: Ann"}

\* the Instance objects constructed with the Series, each one twice
TreeInst == SeriesInst \cup {Twin(i) : i \in SeriesInst}

\* the Series and its Instances are left alone, nothing is constructed and
\* the tag miner does not run
SeriesUntouched ==
    UNCHANGED <<is_stack, image_set, shape, is_multisample, is_rgb,
                loaded, dicom, instance_loaded, instance_dicom, last, ret,
                made, tag_parents, tag_modalities, miner>>

PatientEq ==
    \E p \in Patients, q \in Patients :
        /\ call' = [op |-> "Patient.__eq__", a |-> p, b |-> q, str |-> "",
                    result |-> Patient_eq(p, q)]
        /\ UNCHANGED <<patient_studies, study_series>>
        /\ SeriesUntouched

PatientEqStr ==
    \E p \in Patients, str \in Strings :
        /\ call' = [op |-> "Patient.__eq__(str)", a |-> p, b |-> 0, str |-> str,
                    result |-> Patient_eq_str(p, str)]
        /\ UNCHANGED <<patient_studies, study_series>>
        /\ SeriesUntouched

StudyEq ==
    \E a \in Studies, b \in Studies :
        /\ call' = [op |-> "Study.__eq__", a |-> a, b |-> b, str |-> "",
                    result |-> Study_eq(a, b)]
        /\ UNCHANGED <<patient_studies, study_series>>
        /\ SeriesUntouched

\* the comparisons of hierarchy nodes
NextEq ==
    \/ PatientEq
    \/ PatientEqStr
    \/ StudyEq

SpecEq == Init /\ [][NextEq]_vars

\* The adds: a behaviour adds children to one parent, the Patient, the Study
\* or the Series.
AddStudy ==
    \E o \in Studies :
        /\ study_series = {} /\ image_set = {}
        /\ patient_studies' = Patient_add_study(patient_studies, o)
        /\ call' = [op |-> "Patient.add_study", a |-> o, b |-> 0, str |-> "",
                    result |-> FALSE]
        /\ UNCHANGED study_series
        /\ SeriesUntouched

AddSeries ==
    \E o \in SeriesObjs :
        /\ patient_studies = {} /\ image_set = {}
        /\ study_series' = Study_add_series(study_series, o)
        /\ call' = [op |-> "Study.add_series", a |-> o, b |-> 0, str |-> "",
                    result |-> FALSE]
        /\ UNCHANGED patient_studies
        /\ SeriesUntouched

AddTwinInstance ==
    \E i \in TreeInst :
        /\ patient_studies = {} /\ study_series = {}
        /\ add_instance(i)

NextTree ==
    \/ AddStudy
    \/ AddSeries
    \/ AddTwinInstance

SpecTree == Init /\ [][NextTree]_vars

\* ------------------------------------------------------- construction ----
\* the paths a constructor is given (NoFile: None, the default)
Paths == Files \cup {NoFile}

\* Series.__init__ of a new Series: how it ends (open_dicom: a decoded
\* dataset is passed; bad: the file dcmread cannot decode)
Series_init(stack, path, open_dicom, bad) ==
    IF ~stack THEN "none"
    ELSE IF path = NoFile THEN "FileNotFoundError"
    ELSE IF ~open_dicom /\ bad = path THEN "InvalidDicomError"
    ELSE IF ~HasTag(path, "SamplesPerPixel") THEN "KeyError"
    ELSE "none"

\* Series._filepath of the Series of the behaviour: the stack has its file,
\* the non-stack Series is built without a path
Series__filepath == IF is_stack THEN series_filepath ELSE NoFile

\* Series.current_image: self.instances[self.current_slice]
Series_current_image ==
    IF PyIndex(Len(instances), current_slice) = 0
    THEN [exc |-> "IndexError", val |-> NoInst]
    ELSE [exc |-> "none", val |-> instances[PyIndex(Len(instances), current_slice)]]

\* Series.filepath, once current_image returned c
Series_image_filepath(c) ==
    IF c.exc # "none" THEN [exc |-> c.exc, val |-> NoFile]
    ELSE [exc |-> "none", val |-> filepath(c.val)]

\* Series.filepath
Series_filepath ==
    IF Series__filepath = NoFile THEN Series_image_filepath(Series_current_image)
    ELSE [exc |-> "none", val |-> Series__filepath]

\* Instance.__init__ of a frame, once series.filepath returned f
Instance_init_frame(f) ==
    IF f.exc # "none" THEN f.exc
    ELSE IF f.val = NoFile THEN "FileNotFoundError"
    ELSE "none"

\* Instance.__init__ of a new Instance of the Series: how it ends
Instance_init(frame, path, bad) ==
    IF frame THEN Instance_init_frame(Series_filepath)
    ELSE IF path = NoFile THEN "FileNotFoundError"
    ELSE IF bad = path THEN "InvalidDicomError"
    ELSE IF ~HasTag(path, "SamplesPerPixel") THEN "KeyError"
    ELSE "none"

\* a constructor changes no existing node
NodesUntouched ==
    UNCHANGED <<is_stack, image_set, shape, is_multisample, is_rgb,
                loaded, dicom, instance_loaded, instance_dicom, last, ret,
                patient_studies, study_series, call,
                tag_parents, tag_modalities, miner>>

NewSeries ==
    \E stack \in BOOLEAN, path \in Paths, open_dicom \in BOOLEAN, bad \in Paths :
        /\ made' = [op |-> "Series.__init__", variant |-> stack, path |-> path,
                    children |-> 0,
                    exc |-> Series_init(stack, path, open_dicom, bad)]
        /\ NodesUntouched

NewInstance ==
    \E frame \in BOOLEAN, path \in Paths, bad \in Paths :
        /\ made' = [op |-> "Instance.__init__", variant |-> frame, path |-> path,
                    children |-> Cardinality(image_set),
                    exc |-> Instance_init(frame, path, bad)]
        /\ NodesUntouched

\* constructions, between the adds that give the Series its children
NextNew ==
    \/ NewSeries
    \/ NewInstance
    \/ AddInstance

SpecNew == Init /\ [][NextNew]_vars

\* ------------------------------------------------- the tag miner runs ----
\* the miner leaves the DICOM hierarchy alone
HierarchyUntouched ==
    UNCHANGED <<is_stack, image_set, shape, is_multisample, is_rgb,
                loaded, dicom, instance_loaded, instance_dicom, last, ret,
                patient_studies, study_series, call, made>>

\* STEP 2 and 3 of the script: a tag is given a parent
AddParents ==
    \E t \in TagKeys, p \in TagKeys :
        /\ miner.pos = 0
        /\ tag_parents' =
               [tag_parents EXCEPT ![t] = Tag_add_parents(tag_parents[t], t, p)]
        /\ UNCHANGED <<tag_modalities, miner>>
        /\ HierarchyUntouched

\* one round of `for _, t in tags.items(): t.set_parent_modalities(tags, [])`
SetParentModalities ==
    /\ miner.pos < NumTags
    /\ \E r \in {Tag_set_parent_modalities(
                     [mods |-> tag_modalities, chain |-> <<>>, calls |-> 0],
                     miner.pos + 1)} :
        /\ tag_modalities' = r.mods
        /\ miner' = [pos |-> miner.pos + 1, chain |-> r.chain, calls |-> r.calls]
        /\ UNCHANGED tag_parents
        /\ HierarchyUntouched

NextMiner ==
    \/ AddParents
    \/ SetParentModalities

SpecMiner == Init /\ [][NextMiner]_vars

TypeOK ==
    /\ image_set \subseteq SeriesInst
    /\ loaded \in BOOLEAN
    /\ instance_loaded \in [Inst -> BOOLEAN]

\* ------------------------------------------------------------ properties --
Loads == {"Series.load", "Instance.load"}
Unloads == {"Series.unload", "Instance.unload"}
Queries == {"Instance.get_tag", "Series.get_tags",
            "Instance.dicom_dataset", "Series.dicom_dataset"}

\* the `loaded` flag of the receiver of the last call, now
ReceiverLoaded ==
    IF last.inst = NoInst THEN loaded ELSE instance_loaded[last.inst]

\* whether the receiver of the last call holds a decoded payload of its own
ReceiverPayload ==
    IF last.inst = NoInst THEN dicom
    ELSE IF is_frame(last.inst) THEN FALSE ELSE instance_dicom[last.inst]

LoadState == <<loaded, dicom, instance_loaded, instance_dicom>>

\* C1: after Instance.get_tag, Series.get_tags or a dicom_dataset access
\* returns normally, the receiver's `loaded` equals its value before the call.
C1_QueryKeepsLoaded ==
    (last.op \in Queries /\ last.exc = "none")
        => ReceiverLoaded = last.pre_loaded

\* C2: when get_tag / get_tags on an initially unloaded node fails because
\* the tag is absent (KeyError), the node is unloaded again and its payload
\* released when the error reaches the caller.
C2_ReleasedOnKeyError ==
    (/\ last.op \in {"Instance.get_tag", "Series.get_tags"}
     /\ last.exc = "KeyError"
     /\ ~last.pre_loaded)
        => (~ReceiverLoaded /\ ~ReceiverPayload)

\* the candidate differs from the Series in height, width, multisample or RGB
Mismatch(i) ==
    \/ inst_height(i) # shape[2]
    \/ inst_width(i) # shape[3]
    \/ inst_is_multisample(i) # is_multisample
    \/ inst_is_rgb(i) # is_rgb

Adopted ==
    /\ last.exc = "none"
    /\ last.inst \in image_set
    /\ shape[2] = inst_height(last.inst)
    /\ shape[3] = inst_width(last.inst)
    /\ is_multisample = inst_is_multisample(last.inst)
    /\ is_rgb = inst_is_rgb(last.inst)

\* C4 (as claimed): a Series, stack or not, with zero children accepts any
\* candidate and adopts its height, width, multisample and RGB values.
C4_EmptyAcceptsAny ==
    (last.op = "add_instance" /\ last.pre_children = 0) => Adopted

\* C4 (amended): a non-stack Series with zero children accepts any candidate
\* and adopts its height, width, multisample and RGB values.
C4_EmptyNonStackAcceptsAny ==
    (~is_stack /\ last.op = "add_instance" /\ last.pre_children = 0) => Adopted

C4_Witness ==
    /\ ~is_stack
    /\ last.op = "add_instance"
    /\ last.pre_children = 0
    /\ is_multisample
    /\ image_set = {last.inst}

\* C5: for a Series built empty (non-stack), the slice count of the shape is
\* the number of distinct children, after any sequence of add_instance calls.
C5_SliceCountIsChildCount ==
    ~is_stack => shape[1] = Cardinality(image_set)

C5_Witness ==
    /\ ~is_stack
    /\ last.op = "add_instance"
    /\ last.pre_children = 2
    /\ Cardinality(image_set) = 2
    /\ shape[1] = 2

C7_Idempotent ==
    [][(\/ (last'.op \in Loads /\ last'.pre_loaded)
        \/ (last'.op \in Unloads /\ ~last'.pre_loaded)
        \/ (/\ last'.op \in Loads \cup Unloads
            /\ last.op = last'.op
            /\ last.inst = last'.inst
            /\ last.exc = "none"))
           => (UNCHANGED LoadState /\ last'.dec = 0)]_vars

C7_Witness ==
    /\ last.op \in Loads
    /\ last.pre_loaded
    /\ last.dec = 0
    /\ ReceiverLoaded

\* the Series is loaded together with everything it holds
AllLoaded ==
    /\ loaded
    /\ is_stack => (dicom /\ \A i \in image_set : instance_loaded[i])
    /\ ~is_stack => \A i \in image_set : instance_loaded[i] /\ instance_dicom[i]

\* the Series is unloaded together with everything it holds
AllUnloaded ==
    /\ ~loaded
    /\ ~dicom
    /\ \A i \in image_set : ~instance_loaded[i]

\* C8 (as claimed): after Series.load() returns normally the Series, its
\* stack payload and all its children are loaded; after Series.unload() the
\* Series is unloaded, the stack payload released and every child unloaded.
C8_LoadLoadsAll ==
    /\ (last.op = "Series.load" /\ last.exc = "none") => AllLoaded
    /\ (last.op = "Series.unload") => AllUnloaded

\* C8 (amended): the same, for a load() of a Series that was unloaded before
\* the call and an unload() of a Series that was loaded before the call.
C8_LoadFromUnloadedLoadsAll ==
    /\ (last.op = "Series.load" /\ last.exc = "none" /\ ~last.pre_loaded)
           => AllLoaded
    /\ (last.op = "Series.unload" /\ last.pre_loaded) => AllUnloaded

C8_Witness ==
    /\ last.op = "Series.load"
    /\ last.exc = "none"
    /\ ~last.pre_loaded
    /\ is_stack
    /\ Cardinality(image_set) = 2
    /\ AllLoaded

\* the last call is an unload() right after a load() of the same node
LoadThenUnload == last.op \in Unloads /\ last.chain # "none"

\* C9 (as claimed): load() then unload() leaves `loaded` at its value before
\* the load(), and a stack Series holds no cached payload afterwards.
C9_LoadUnloadRestores ==
    LoadThenUnload
        => (/\ ReceiverLoaded = (last.chain = "was_loaded")
            /\ (is_stack /\ (last.inst = NoInst \/ is_frame(last.inst))) => ~dicom)

\* C9 (amended): load() then unload() leaves the node unloaded, which is its
\* value before the load() only if it started unloaded; a stack Series holds
\* no cached payload afterwards.
C9_LoadUnloadUnloads ==
    LoadThenUnload
        => (/\ ~ReceiverLoaded
            /\ (is_stack /\ (last.inst = NoInst \/ is_frame(last.inst))) => ~dicom)

C9_Witness ==
    /\ LoadThenUnload
    /\ last.chain = "was_unloaded"
    /\ is_stack
    /\ last.inst \in Frames
    /\ ~ReceiverLoaded
    /\ ~dicom

\* C10: frame.load() leaves the owning Series loaded with its payload cached
\* and the frame loaded; frame.unload() on a loaded frame leaves the Series
\* unloaded, the payload released and the frame unloaded; load()/unload() of
\* a standalone Instance leave the `loaded` flag of its Series alone.
C10_FrameForwards ==
    [][/\ (/\ last'.op = "Instance.load"
           /\ last'.exc = "none"
           /\ is_frame(last'.inst))
              => (loaded' /\ dicom' /\ instance_loaded'[last'.inst])
       /\ (/\ last'.op = "Instance.unload"
           /\ last'.pre_loaded
           /\ is_frame(last'.inst))
              => (~loaded' /\ ~dicom' /\ ~instance_loaded'[last'.inst])
       /\ (/\ last'.op \in {"Instance.load", "Instance.unload"}
           /\ ~is_frame(last'.inst))
              => (loaded' = loaded /\ dicom' = dicom)]_vars

\* C11: a frame Instance never holds a decoded payload of its own, whatever
\* load, unload, get_tag, get_tags, dicom_dataset, raw_array and array calls
\* were made; the payload a frame reads is the one cached by its stack Series.
C11_FrameHoldsNoPayload ==
    \A i \in Frames : ~instance_dicom[i]

C11_Witness ==
    /\ last.op = "Instance.raw_array"
    /\ last.inst \in Frames
    /\ last.exc = "none"
    /\ instance_loaded[last.inst]
    /\ dicom
    /\ ~instance_dicom[last.inst]
    /\ ret.val = <<pixel_array(series_filepath)[frame_number(last.inst)]>>

\* the Instance at 0-based position n of the children in ascending sort order:
\* the one with exactly n children of smaller sort value
InstanceAt(n) ==
    CHOOSE t \in image_set :
        Cardinality({j \in image_set : sort_value(j) < sort_value(t)}) = n

\* the value of tag held for Instance t by the file it reads
FileTag(t, tag) ==
    IF IsMulti(filepath(t), tag)
    THEN <<TagValue(filepath(t), tag, IF is_frame(t) THEN frame_number(t) ELSE 0),
           TagValue(filepath(t), tag, IF is_frame(t) THEN frame_number(t) ELSE 0) + 1>>
    ELSE <<TagValue(filepath(t), tag, IF is_frame(t) THEN frame_number(t) ELSE 0)>>

\* Series.get_tag(tag, n) ended as Instance.get_tag(tag) of the Instance at
\* position n ends: with its value, with KeyError if its file lacks the tag,
\* or with the decode error of its file, and never with IndexError
ProxiedTo(n) ==
    /\ last.exc \in {"none", "KeyError", "InvalidDicomError"}
    /\ last.exc = "none" => ret.val = FileTag(InstanceAt(n), ret.tag)
    /\ last.exc = "none" => HasTag(filepath(InstanceAt(n)), ret.tag)
    /\ last.exc = "KeyError" => ~HasTag(filepath(InstanceAt(n)), ret.tag)

\* C12 (as claimed): Series.get_tag(tag, n), n >= 0, fails with IndexError
\* whenever n >= the slice count, and otherwise gives the tag value of the
\* Instance at position n of the children in ascending sort order.
C12_GetTagByPosition ==
    (last.op = "Series.get_tag" /\ ret.arg >= 0)
        => IF ret.arg >= num_slices
           THEN last.exc = "IndexError"
           ELSE /\ ret.arg < Cardinality(image_set)
                /\ ProxiedTo(ret.arg)

\* C12 (amended): Series.get_tag(tag, n), n >= 0, fails with IndexError
\* whenever n >= the slice count or n >= the number of Instances held, and
\* otherwise gives the tag value of the Instance at position n of the
\* children in ascending sort order.
C12_GetTagByHeldPosition ==
    (last.op = "Series.get_tag" /\ ret.arg >= 0)
        => IF ret.arg >= num_slices \/ ret.arg >= Cardinality(image_set)
           THEN last.exc = "IndexError"
           ELSE ProxiedTo(ret.arg)

C12_Witness ==
    /\ last.op = "Series.get_tag"
    /\ last.exc = "none"
    /\ ret.arg = 1
    /\ ret.tag = "WindowCenter"
    /\ Cardinality(image_set) = 2
    /\ ret.val = FileTag(InstanceAt(1), "WindowCenter")
    /\ ret.val # FileTag(InstanceAt(0), "WindowCenter")

\* C13: Series.vmax, vmin, window and level never raise: when the tag is
\* missing, its value has the wrong type, or the index is out of range (a
\* Series with no instances), each returns the base default.  (A file that
\* cannot be decoded is not a resolution failure.)
C13_DisplayNeverRaises ==
    last.op \in SeriesDisplayOps
        => (/\ last.exc \in {"none", "InvalidDicomError"}
            /\ (last.exc = "none" /\ image_set = {}) => ret.val = BaseDefault)

\* the last call is a display accessor of an element that has an Instance to
\* read its tags from: an Instance, or a Series holding one at current_slice
DisplayOfElement ==
    /\ last.op \in SeriesDisplayOps \cup InstanceDisplayOps
    /\ last.inst = NoInst
           => (current_slice < num_slices /\ current_slice < Cardinality(image_set))

\* the Instance whose tags that accessor reads
DisplayTarget ==
    IF last.inst = NoInst THEN InstanceAt(current_slice) ELSE last.inst

\* both window tags of Instance t resolve to a number
WindowResolves(t) ==
    /\ HasTag(filepath(t), "WindowCenter") /\ ~IsMulti(filepath(t), "WindowCenter")
    /\ HasTag(filepath(t), "WindowWidth") /\ ~IsMulti(filepath(t), "WindowWidth")

\* what the accessor op is to return for center c and (even) width w
DisplayValue(op, c, w) ==
    CASE op \in {"Series.vmax", "Instance.vmax"} -> c + w \div 2
      [] op \in {"Series.vmin", "Instance.vmin"} -> c - w \div 2
      [] op \in {"Series.window", "Instance.window"} -> w
      [] op \in {"Series.level", "Instance.level"} -> c

\* C14: for a Series or Instance whose WindowCenter c and WindowWidth w
\* resolve, vmax = c + w/2, vmin = c - w/2, window = w and level = c; when a
\* window tag is absent, vmin and vmax return the base default and do not
\* raise.  (A file that cannot be decoded raises its decode error.)
C14_WindowArithmetic ==
    DisplayOfElement
        => /\ WindowResolves(DisplayTarget)
                  => /\ last.exc \in {"none", "InvalidDicomError"}
                     /\ last.exc = "none"
                            => ret.val = Returned(
                                   <<DisplayValue(
                                         last.op,
                                         FileTag(DisplayTarget, "WindowCenter")[1],
                                         FileTag(DisplayTarget, "WindowWidth")[1])>>)
           /\ (/\ last.op \in {"Series.vmax", "Instance.vmax",
                                "Series.vmin", "Instance.vmin"}
               /\ \/ ~HasTag(filepath(DisplayTarget), "WindowCenter")
                  \/ ~HasTag(filepath(DisplayTarget), "WindowWidth"))
                  => /\ last.exc \in {"none", "InvalidDicomError"}
                     /\ last.exc = "none" => ret.val = BaseDefault

C14_Witness ==
    /\ last.op = "Series.vmin"
    /\ last.exc = "none"
    /\ image_set # {}
    /\ FileTag(DisplayTarget, "WindowCenter") = <<40>>
    /\ FileTag(DisplayTarget, "WindowWidth") = <<400>>
    /\ ret.val = Returned(<<-160>>)

\* the last call is the array accessor of a single-sample stack Series or
\* standalone Instance
SingleSampleArray ==
    \/ last.op = "Series.array" /\ is_stack /\ FileSamples(series_filepath) = 1
    \/ /\ last.op = "Instance.array"
       /\ ~is_frame(last.inst)
       /\ FileSamples(filepath(last.inst)) = 1

\* the file of that element, and the pixel data it holds as an array
ElementFile == IF last.inst = NoInst THEN series_filepath ELSE filepath(last.inst)
ElementRaw ==
    IF last.inst = NoInst THEN pixel_array(series_filepath)
    ELSE <<pixel_array(filepath(last.inst))>>

\* C15: for a single-sample stack Series or standalone Instance, array is
\* raw * RescaleSlope + RescaleIntercept value by value when both tags are
\* present, and equals raw_array when either is absent; array does not raise
\* for an absent tag.  (A file that cannot be decoded raises its decode error.)
C15_ArrayRescaled ==
    SingleSampleArray
        => /\ last.exc \in {"none", "InvalidDicomError"}
           /\ last.exc = "none"
                  => ret.val =
                        IF /\ HasTag(ElementFile, "RescaleSlope")
                           /\ HasTag(ElementFile, "RescaleIntercept")
                        THEN Rescale(ElementRaw,
                                     TagValue(ElementFile, "RescaleSlope", 0),
                                     TagValue(ElementFile, "RescaleIntercept", 0))
                        ELSE ElementRaw

\* C16: raw_array of the frame Instance with frame_number k is exactly one
\* slice, the slice at index k - 1 of the raw_array of its stack Series.
C16_FrameRawIsSeriesSlice ==
    (last.op = "Instance.raw_array" /\ is_frame(last.inst) /\ last.exc = "none")
        => /\ Len(ret.val) = 1
           /\ Series_raw_array(Heap, NoFile).exc = "none"
           /\ ret.val[1] =
                  Series_raw_array(Heap, NoFile).val[frame_number(last.inst)]
           /\ ret.val[1] = pixel_slice(series_filepath, frame_number(last.inst))

C16_Witness ==
    /\ last.op = "Instance.raw_array"
    /\ last.inst = NumFrames
    /\ last.exc = "none"
    /\ ~last.pre_loaded
    /\ Len(ret.val) = 1
    /\ ret.val[1] = Series_raw_array(Heap, NoFile).val[NumFrames]
    /\ ret.val[1] # Series_raw_array(Heap, NoFile).val[1]

\* the one slice that raw_array (array) of Instance t gives in this state
InstanceSlice(op, t) ==
    IF op = "Series.raw_array" THEN Instance_raw_array(Heap, t, NoFile).val[1]
    ELSE Instance_array(Heap, t, NoFile).val[1]

\* C17: for a non-stack Series filled by add_instance calls in any order,
\* raw_array and array have one slice per Instance, slice n being the
\* raw_array / array slice of the Instance with the n-th smallest sort value,
\* and the Series is loaded after the access.  (A file that cannot be decoded
\* raises its decode error.)
C17_SlicesInSortOrder ==
    (/\ last.op \in {"Series.raw_array", "Series.array"}
     /\ ~is_stack
     /\ image_set # {})
        => /\ last.exc \in {"none", "InvalidDicomError"}
           /\ last.exc = "none"
                  => /\ loaded
                     /\ Len(ret.val) = Cardinality(image_set)
                     /\ \A n \in 0..(Cardinality(image_set) - 1) :
                            ret.val[n + 1] = InstanceSlice(last.op, InstanceAt(n))

C17_Witness ==
    /\ last.op = "Series.array"
    /\ ~is_stack
    /\ last.exc = "none"
    /\ ~last.pre_loaded
    /\ loaded
    /\ Cardinality(image_set) = 2
    /\ Len(ret.val) = 2
    /\ ret.val[1] = InstanceSlice("Series.array", InstanceAt(0))
    /\ ret.val[2] = InstanceSlice("Series.array", InstanceAt(1))
    /\ ret.val[1] # ret.val[2]

\* C18: two Patients compare equal iff their patient_id strings match,
\* whatever their names; a Patient compares equal to a string iff the string
\* is "DICOM : " followed by its patient_id.
C18_PatientEquality ==
    /\ call.op = "Patient.__eq__"
           => call.result = (Patient_patient_id(call.a) = Patient_patient_id(call.b))
    /\ call.op = "Patient.__eq__(str)"
           => call.result = (call.str = "DICOM : " \o Patient_patient_id(call.a))

C18_Witness ==
    /\ call.op = "Patient.__eq__"
    /\ call.a # call.b
    /\ Patient_name(call.a) # Patient_name(call.b)
    /\ Patient_patient_id(call.a) = "1"
    /\ Patient_patient_id(call.b) = "1"
    /\ call.result

\* C19: two Studies compare equal iff both the identity of their Patients
\* and their study ids are the same; Studies with the same study id under
\* different Patients are not equal.
C19_StudyEquality ==
    call.op = "Study.__eq__"
        => call.result =
              (/\ Patient_id_string(Study_patient(call.a))
                      = Patient_id_string(Study_patient(call.b))
               /\ Study_study_id(call.a) = Study_study_id(call.b))

\* no two children of a parent have the same identity
UniqueIdentities ==
    /\ \A c \in patient_studies, d \in patient_studies :
           Study_id_string(c) = Study_id_string(d) => c = d
    /\ \A c \in study_series, d \in study_series :
           Series_id_string(c) = Series_id_string(d) => c = d
    /\ \A c \in image_set, d \in image_set :
           Instance_id_string(c) = Instance_id_string(d) => c = d

\* C20: Patient.add_study, Study.add_series and Series.add_instance of a node
\* whose identity is that of a child already present, the same object or
\* not, leave the child set (and the Series' shape) unchanged; a parent never
\* holds two children of the same identity.
C20_ReAddIsNoOp ==
    [][/\ (/\ call'.op = "Patient.add_study"
           /\ \E c \in patient_studies :
                  Study_id_string(c) = Study_id_string(call'.a))
              => UNCHANGED patient_studies
       /\ (/\ call'.op = "Study.add_series"
           /\ \E c \in study_series :
                  Series_id_string(c) = Series_id_string(call'.a))
              => UNCHANGED study_series
       /\ (/\ last'.op = "add_instance"
           /\ \E c \in image_set :
                  Instance_id_string(c) = Instance_id_string(last'.inst))
              => UNCHANGED <<image_set, shape>>
       /\ UniqueIdentities']_vars

C20_Witness ==
    /\ call.op = "Patient.add_study"
    /\ call.a \notin patient_studies
    /\ \E c \in patient_studies : Study_id_string(c) = Study_id_string(call.a)
    /\ Cardinality(patient_studies) = 3

\* C21: a missing required file location surfaces as FileNotFoundError at
\* construction: a stack Series without a path, a standalone Instance without
\* a path, and a frame Instance whose Series resolves no file location (a
\* Series with no path and no children) each fail with that error.
C21_MissingLocationIsFileNotFound ==
    /\ (made.op = "Series.__init__" /\ made.variant /\ made.path = NoFile)
           => made.exc = "FileNotFoundError"
    /\ (made.op = "Instance.__init__" /\ ~made.variant /\ made.path = NoFile)
           => made.exc = "FileNotFoundError"
    /\ (/\ made.op = "Instance.__init__"
        /\ made.variant
        /\ ~is_stack
        /\ made.children = 0)
           => made.exc = "FileNotFoundError"

\* C22: in a stack Series, in every state reachable by add_instance,
\* Series.load/unload, frame Instance.load/unload and the tag and array
\* accessors, every frame Instance the Series holds has its `loaded` flag
\* equal to the Series' `loaded` flag.
C22_FrameFlagIsSeriesFlag ==
    is_stack => \A i \in image_set \cap Frames : instance_loaded[i] = loaded

\* C23: Instance.get_tag on a frame Instance is read-only for its owner:
\* when the call returns, the owning stack Series' `loaded` flag and cached
\* payload are what they were before the call, whatever the frame's own flag.
C23_FrameGetTagKeepsSeries ==
    [][(/\ last'.op = "Instance.get_tag"
        /\ is_frame(last'.inst)
        /\ last'.exc = "none")
           => (loaded' = loaded /\ dicom' = dicom)]_vars

\* C24: Series.get_tags and Series.dicom_dataset on a non-stack Series leave
\* the `loaded` flag and the payload of every child Instance as they were
\* before the call.
C24_SeriesQueryKeepsChildren ==
    [][(/\ last'.op \in {"Series.get_tags", "Series.dicom_dataset"}
        /\ ~is_stack
        /\ last'.exc = "none")
           => \A i \in image_set :
                  /\ instance_loaded'[i] = instance_loaded[i]
                  /\ instance_dicom'[i] = instance_dicom[i]]_vars

C26_FailedLoadLeavesNothing ==
    [][(/\ last'.op = "Series.load"
        /\ ~is_stack
        /\ last'.exc = "InvalidDicomError")
           => (/\ ~loaded'
               /\ \A i \in image_set :
                      ~instance_loaded[i]
                          => (~instance_loaded'[i] /\ ~instance_dicom'[i]))]_vars

\* the tags reached from the tags of S by following at most n parent links
RECURSIVE Up(_, _)
Up(S, n) ==
    IF n = 0 THEN S
    ELSE Up(S \cup UNION {ParentKeys(tag_parents[x]) : x \in S}, n - 1)

\* the tags reachable from t by following one or more parent links
Ancestors(t) == Up(ParentKeys(tag_parents[t]), NumTags)

\* the number of parent links of the tags of a chain
RECURSIVE Links(_)
Links(chain) ==
    IF chain = <<>> THEN 0
    ELSE Len(tag_parents[Head(chain)]) + Links(Tail(chain))

\* the propagation loop has called set_parent_modalities on every tag
Propagated == miner.pos = NumTags

\* C27: modality propagation terminates and is upward-closed for every
\* parent graph, cycles included.  Every call of set_parent_modalities
\* with a fresh chain enters each tag at most once and makes at most one
\* call per parent link of the tags it entered; and once it has been called
\* on every tag, each tag's modalities contain the modalities of every tag
\* from which it is reachable by parent links.
C27_PropagationUpwardClosed ==
    /\ \A j \in 1..Len(miner.chain), k \in 1..Len(miner.chain) :
           miner.chain[j] = miner.chain[k] => j = k
    /\ miner.calls <= 1 + Links(miner.chain)
    /\ Propagated =>
           \A d \in TagKeys : \A t \in Ancestors(d) :
               /\ Modality(d) \in tag_modalities[t]
               /\ tag_modalities[d] \subseteq tag_modalities[t]

\* a cycle through all the tags, each tag ending with every modality
C27_Witness ==
    /\ Propagated
    /\ \A t \in TagKeys : t \in Ancestors(t)
    /\ \A t \in TagKeys : Cardinality(ParentKeys(tag_parents[t])) = 1
    /\ \A t \in TagKeys : tag_modalities[t] = {Modality(d) : d \in TagKeys}

====
